---- MODULE Spec2Model ----
(***************************************************************************)
(* Model of scripts/generate_options_heuristics.py: the strike rounding    *)
(* policy, the monthly expiration resolver, the 8-option generator, the    *)
(* rolling price history and the per-symbol loop of main.                  *)
(*                                                                         *)
(* Money is fixed point: one dollar is Unit units, so every price with a   *)
(* whole number of cents times a percentage in hundredths is exact.        *)
(* A date is its proleptic Gregorian ordinal (date.toordinal()); the       *)
(* formatted 'YYYY-MM-DD' text is the triple <<year, month, day>>.         *)
(***************************************************************************)
EXTENDS Integers, Sequences, FiniteSets, TLC

(* ---------------------------------------------------------------------- *)
(* Bounds of the model                                                     *)
(* ---------------------------------------------------------------------- *)
MaxTicks == 1          \* changes of calendar day during one run
NumDates == 24         \* as-of dates tried by the generator specification
ExpSpan == 420         \* as-of dates tried by the resolver specification
MaxUpdates == 3        \* update_historical_prices calls in one behaviour
MaxSymbols == 2        \* length of the symbol list of main

(* ---------------------------------------------------------------------- *)
(* datetime.date: ordinal <-> (year, month, day), weekday, day of year     *)
(* ---------------------------------------------------------------------- *)
DAYS_IN_MONTH == <<31, 28, 31, 30, 31, 30, 31, 31, 30, 31, 30, 31>>

DAYS_BEFORE_MONTH == <<0, 31, 59, 90, 120, 151, 181, 212, 243, 273, 304, 334>>

is_leap(year) ==
    year % 4 = 0 /\ (year % 100 # 0 \/ year % 400 = 0)

days_before_year(year) ==
    LET y == year - 1
    IN  y * 365 + (y \div 4) - (y \div 100) + (y \div 400)

days_before_month(year, month) ==
    DAYS_BEFORE_MONTH[month] + (IF month > 2 /\ is_leap(year) THEN 1 ELSE 0)

ymd2ord(year, month, day) ==
    days_before_year(year) + days_before_month(year, month) + day

ord2ymd(ordinal) ==
    LET n0   == ordinal - 1
        n400 == n0 \div 146097
        r400 == n0 % 146097
        n100 == r400 \div 36524
        r100 == r400 % 36524
        n4   == r100 \div 1461
        r4   == r100 % 1461
        n1   == r4 \div 365
        n    == r4 % 365
        year == n400 * 400 + 1 + n100 * 100 + n4 * 4 + n1
        leapyear == n1 = 3 /\ (n4 # 24 \/ n100 = 3)
        month0 == (n + 50) \div 32
        preceding0 == DAYS_BEFORE_MONTH[month0]
                        + (IF month0 > 2 /\ leapyear THEN 1 ELSE 0)
        month == IF preceding0 > n THEN month0 - 1 ELSE month0
        preceding == IF preceding0 > n
                     THEN preceding0 - (DAYS_IN_MONTH[month]
                            + (IF month = 2 /\ leapyear THEN 1 ELSE 0))
                     ELSE preceding0
    IN  IF n1 = 4 \/ n100 = 4
        THEN <<year - 1, 12, 31>>
        ELSE <<year, month, n - preceding + 1>>

weekday(ordinal) == (ordinal + 6) % 7

tm_yday(ordinal) ==
    LET ymd == ord2ymd(ordinal)
    IN  days_before_month(ymd[1], ymd[2]) + ymd[3]

strftime(ordinal) == ord2ymd(ordinal)

Abs(x) == IF x < 0 THEN -x ELSE x

(* ---------------------------------------------------------------------- *)
(* round_strike                                                            *)
(* ---------------------------------------------------------------------- *)
Unit == 10000

\* round() taken for rounding half up
round_half_up(num, den) == (2 * num + den) \div (2 * den)

\* Python's round(): nearest integer of num/den (den > 0), ties to even.
round(num, den) ==
    LET q == num \div den
        r == num % den
    IN  IF 2 * r < den THEN q
        ELSE IF 2 * r > den THEN q + 1
        ELSE IF q % 2 = 0 THEN q ELSE q + 1

Increment(price) ==
    IF price < 25 * Unit THEN Unit \div 2
    ELSE IF price < 200 * Unit THEN Unit
    ELSE 5 * Unit

round_strike(price, strike_value) ==
    round(strike_value, Increment(price)) * Increment(price)

\* price * 0.85 and the like, the fraction given in hundredths
Times(price, pct) == (price * pct) \div 100

(* ---------------------------------------------------------------------- *)
(* get_option_expiration                                                   *)
(* ---------------------------------------------------------------------- *)
MonthOffsets == 12

target_month(today, month_offset) == today + 30 * month_offset

third_friday(year, month) ==
    LET first_day == ymd2ord(year, month, 1)
        first_friday == first_day + ((4 - weekday(first_day)) % 7)
    IN  first_friday + 14

expirations(today) ==
    [i \in 1..MonthOffsets |->
        LET ymd == ord2ymd(target_month(today, i - 1))
        IN  third_friday(ymd[1], ymd[2])]

\* min(seq, key=...): the first element whose key is minimal
MinBy(seq, target_date) ==
    LET key(i) == Abs(seq[i] - target_date)
        best == CHOOSE i \in 1..Len(seq) :
                    /\ \A j \in 1..Len(seq) : key(i) <= key(j)
                    /\ \A j \in 1..(i - 1) : key(j) > key(i)
    IN  seq[best]

closest_expiration(today, days_target) ==
    MinBy(expirations(today), today + days_target)

get_option_expiration(today, days_target) ==
    strftime(closest_expiration(today, days_target))

(* ---------------------------------------------------------------------- *)
(* generate_options_for_stock: the records and the three phases            *)
(* ---------------------------------------------------------------------- *)
otm_levels == <<95, 90, 82, 75, 65, 55>>

days_options == <<60, 90, 120, 150, 180, 210>>

\* f'Random - {int((1-random_otm)*100)}% OTM' as binary floating point
\* evaluates it for the six entries of otm_levels
RandomDescription ==
    <<"Random - 5% OTM", "Random - 9% OTM", "Random - 18% OTM",
      "Random - 25% OTM", "Random - 35% OTM", "Random - 44% OTM">>

RECURSIVE SumCodes(_)
SumCodes(s) == IF s = <<>> THEN 0 ELSE Head(s) + SumCodes(Tail(s))

\* sum(ord(c) for c in symbol); a symbol is its sequence of character codes
ticker_sum(sym) == SumCodes(sym)

Option(sym, num, expiration, strike, description) ==
    [Symbol |-> sym, Option_Num |-> num, Expiration |-> expiration,
     Strike |-> strike, Type |-> "Put", Description |-> description,
     Bid |-> "", Ask |-> "", Mid |-> "", Notes |-> ""]

\* Phase1 with option 4 left on the 3-month expiration
Phase1_SameHorizon(sym, p, e3m, e6m) ==
    << Option(sym, 1, e3m, round_strike(p, p), "3mo ATM - Anchor"),
       Option(sym, 2, e3m, round_strike(p, Times(p, 85)),
              "3mo 15% OTM - Fear Premium"),
       Option(sym, 3, e3m, round_strike(p, Times(p, 70)),
              "3mo 30% OTM - Lottery"),
       Option(sym, 4, e3m, round_strike(p, Times(p, 85)),
              "6mo 15% OTM - Sweet Spot"),
       Option(sym, 5, e6m, round_strike(p, p), "6mo ATM - Arb Check") >>

Phase1(sym, p, e3m, e6m) ==
    << Option(sym, 1, e3m, round_strike(p, p), "3mo ATM - Anchor"),
       Option(sym, 2, e3m, round_strike(p, Times(p, 85)),
              "3mo 15% OTM - Fear Premium"),
       Option(sym, 3, e3m, round_strike(p, Times(p, 70)),
              "3mo 30% OTM - Lottery"),
       Option(sym, 4, e6m, round_strike(p, Times(p, 85)),
              "6mo 15% OTM - Sweet Spot"),
       Option(sym, 5, e6m, round_strike(p, p), "6mo ATM - Arb Check") >>

\* Phase2 with the sequence number of option 6 copied to option 7
Phase2_CopiedNumber(sym, p, e45m, e3m) ==
    << Option(sym, 6, e45m, round_strike(p, Times(p, 80)),
              "4.5mo 20% OTM - Explore"),
       Option(sym, 6, e3m, round_strike(p, Times(p, 60)),
              "3mo 40% OTM - Deep Explore") >>

Phase2(sym, p, e45m, e3m) ==
    << Option(sym, 6, e45m, round_strike(p, Times(p, 80)),
              "4.5mo 20% OTM - Explore"),
       Option(sym, 7, e3m, round_strike(p, Times(p, 60)),
              "3mo 40% OTM - Deep Explore") >>

Seed(doy, sym) == (doy * ticker_sum(sym)) % 6

\* the days menu indexed by a sum instead of the product
DaysIndex_Sum(doy, sym) == (doy + ticker_sum(sym)) % Len(days_options)

DaysIndex(doy, sym) == (doy * ticker_sum(sym)) % Len(days_options)

Phase3(sym, p, sd, rexp) ==
    << Option(sym, 8, rexp, round_strike(p, Times(p, otm_levels[sd + 1])),
              RandomDescription[sd + 1]) >>

\* The whole call, given the five dates datetime.now() returns to it, in
\* the order of the reads (lines 105, 106, 179, 210, 219).
generate_options_for_stock(sym, p, clock) ==
    LET e3m  == get_option_expiration(clock[1], 90)
        e6m  == get_option_expiration(clock[2], 180)
        e45m == get_option_expiration(clock[3], 135)
        doy  == tm_yday(clock[4])
        rexp == get_option_expiration(clock[5],
                                      days_options[DaysIndex(doy, sym) + 1])
    IN  Phase1(sym, p, e3m, e6m) \o Phase2(sym, p, e45m, e3m)
          \o Phase3(sym, p, Seed(doy, sym), rexp)

(* ---------------------------------------------------------------------- *)
(* update_historical_prices                                                *)
(* ---------------------------------------------------------------------- *)
HistoryCap == 252

\* lst[:n], the oldest entries kept
FirstN(lst, n) == IF Len(lst) <= n THEN lst ELSE SubSeq(lst, 1, n)

\* lst[-n:]
LastN(lst, n) ==
    IF Len(lst) <= n THEN lst ELSE SubSeq(lst, Len(lst) - n + 1, Len(lst))

update_historical_prices(data, sym, p, now) ==
    LET loaded == IF sym \in DOMAIN data
                  THEN data
                  ELSE [s \in DOMAIN data \cup {sym} |->
                            IF s = sym THEN <<>> ELSE data[s]]
        entry == [date |-> strftime(now), price |-> p]
    IN  [loaded EXCEPT ![sym] = LastN(Append(loaded[sym], entry), HistoryCap)]

(* ---------------------------------------------------------------------- *)
(* Inputs                                                                  *)
(* ---------------------------------------------------------------------- *)
ABC == <<65, 66, 67>>
XYZ == <<88, 89, 90>>
C == <<67>>

Symbols == {ABC, XYZ, C}

Cents(n) == n * (Unit \div 100)

Prices == {Cents(-500), Cents(0), Cents(20), Cents(40), Cents(90),
           Cents(1000), Cents(2499), Cents(2500), Cents(10000),
           Cents(19999), Cents(30000)}

GenBase == ymd2ord(2024, 12, 25)

GenDates == GenBase..(GenBase + NumDates - 1)

NoDate == <<0, 0, 0>>

(* ---------------------------------------------------------------------- *)
(* State                                                                   *)
(* ---------------------------------------------------------------------- *)
VARIABLES
    pc,            \* position of the running function
    today,         \* datetime.now().date(), the ambient clock
    ticks,         \* changes of day so far
    symbol, price, \* arguments of generate_options_for_stock / round_strike
    options,       \* the list being built
    exp_3m, exp_6m, exp_4_5m, day_of_year, random_otm, random_days,
    reads,         \* the dates the clock returned to this invocation
    strike_value, rounded,      \* round_strike: second argument, result
    days_target, closest,       \* get_option_expiration: argument, result
    hist_data,     \* contents of data/historical_prices.json
    appended,      \* every entry ever stored for a symbol, in order
    updates,       \* update_historical_prices calls so far
    symbols, idx,  \* main: the symbol list and the loop position
    all_options,   \* main: the aggregated list
    outcome,       \* main: "ok" or the failing step, per processed symbol
    trading_day    \* main: what is_trading_day() answers

clockVars == <<today, ticks>>
genVars == <<symbol, price, options, exp_3m, exp_6m, exp_4_5m, day_of_year,
             random_otm, random_days, reads>>
roundVars == <<strike_value, rounded>>
expVars == <<days_target, closest>>
histVars == <<hist_data, appended, updates>>
mainVars == <<symbols, idx, all_options, outcome, trading_day>>
vars == <<pc, clockVars, genVars, roundVars, expVars, histVars, mainVars>>

GenIdle ==
    /\ options = <<>>
    /\ exp_3m = NoDate /\ exp_6m = NoDate /\ exp_4_5m = NoDate
    /\ day_of_year = 0 /\ random_otm = 0 /\ random_days = 0
    /\ reads = <<>>

RoundIdle == strike_value = 0 /\ rounded = 0
ExpIdle == days_target = 0 /\ closest = NoDate
HistIdle == hist_data = <<>> /\ appended = <<>> /\ updates = 0
MainIdle ==
    /\ symbols = <<>> /\ idx = 0 /\ all_options = <<>> /\ outcome = <<>>
    /\ trading_day = FALSE

\* the calendar day changes while the program runs
Tick ==
    /\ ticks < MaxTicks
    /\ pc \notin {"gen_return", "main_done"}
    /\ today' = today + 1
    /\ ticks' = ticks + 1
    /\ UNCHANGED <<pc, genVars, roundVars, expVars, histVars, mainVars>>

(* ---------------------------------------------------------------------- *)
(* generate_options_for_stock, one step per read of the clock              *)
(* ---------------------------------------------------------------------- *)
Gen105 ==
    /\ pc = "gen_105"
    /\ exp_3m' = get_option_expiration(today, 90)
    /\ reads' = Append(reads, today)
    /\ pc' = "gen_106"
    /\ UNCHANGED <<symbol, price, options, exp_6m, exp_4_5m, day_of_year,
                   random_otm, random_days>>
    /\ UNCHANGED <<clockVars, roundVars, expVars, histVars, mainVars>>

Gen106 ==
    /\ pc = "gen_106"
    /\ exp_6m' = get_option_expiration(today, 180)
    /\ reads' = Append(reads, today)
    /\ options' = options \o Phase1(symbol, price, exp_3m, exp_6m')
    /\ pc' = "gen_179"
    /\ UNCHANGED <<symbol, price, exp_3m, exp_4_5m, day_of_year,
                   random_otm, random_days>>
    /\ UNCHANGED <<clockVars, roundVars, expVars, histVars, mainVars>>

Gen179 ==
    /\ pc = "gen_179"
    /\ exp_4_5m' = get_option_expiration(today, 135)
    /\ reads' = Append(reads, today)
    /\ options' = options \o Phase2(symbol, price, exp_4_5m', exp_3m)
    /\ pc' = "gen_210"
    /\ UNCHANGED <<symbol, price, exp_3m, exp_6m, day_of_year,
                   random_otm, random_days>>
    /\ UNCHANGED <<clockVars, roundVars, expVars, histVars, mainVars>>

Gen210 ==
    /\ pc = "gen_210"
    /\ day_of_year' = tm_yday(today)
    /\ reads' = Append(reads, today)
    /\ random_otm' = otm_levels[Seed(day_of_year', symbol) + 1]
    /\ random_days' = days_options[DaysIndex(day_of_year', symbol) + 1]
    /\ pc' = "gen_219"
    /\ UNCHANGED <<symbol, price, options, exp_3m, exp_6m, exp_4_5m>>
    /\ UNCHANGED <<clockVars, roundVars, expVars, histVars, mainVars>>

Gen219 ==
    /\ pc = "gen_219"
    /\ reads' = Append(reads, today)
    /\ options' = options \o
          Phase3(symbol, price, Seed(day_of_year, symbol),
                 get_option_expiration(today, random_days))
    /\ pc' = "gen_return"
    /\ UNCHANGED <<symbol, price, exp_3m, exp_6m, exp_4_5m, day_of_year,
                   random_otm, random_days>>
    /\ UNCHANGED <<clockVars, roundVars, expVars, histVars, mainVars>>

InitGen ==
    /\ pc = "gen_105"
    /\ today \in GenDates /\ ticks = 0
    /\ symbol \in Symbols /\ price \in Prices
    /\ GenIdle /\ RoundIdle /\ ExpIdle /\ HistIdle /\ MainIdle

NextGen == Gen105 \/ Gen106 \/ Gen179 \/ Gen210 \/ Gen219 \/ Tick

SpecGen == InitGen /\ [][NextGen]_vars

(* ---------------------------------------------------------------------- *)
(* round_strike called on its own                                          *)
(* ---------------------------------------------------------------------- *)
MaxQuarter == 12       \* targets 0.25*k dollars, k up to this

RoundPrices == {Cents(1000), Cents(2499), Cents(2500), Cents(10000),
                Cents(19999), Cents(20000), Cents(30000)}

RoundTargets ==
    {Cents(25 * k) : k \in (-4)..MaxQuarter}
      \cup {Cents(1000), Cents(1025), Cents(1075), Cents(10050),
            Cents(10130), Cents(10150), Cents(30250), Cents(30300),
            Cents(30750)}

RoundStrike ==
    /\ pc = "round_call"
    /\ rounded' = round_strike(price, strike_value)
    /\ pc' = "round_return"
    /\ UNCHANGED <<strike_value, clockVars, genVars, expVars, histVars,
                   mainVars>>

InitRound ==
    /\ pc = "round_call"
    /\ today = GenBase /\ ticks = 0
    /\ symbol = <<>> /\ price \in RoundPrices
    /\ strike_value \in RoundTargets /\ rounded = 0
    /\ GenIdle /\ ExpIdle /\ HistIdle /\ MainIdle

NextRound == RoundStrike

SpecRound == InitRound /\ [][NextRound]_vars

(* ---------------------------------------------------------------------- *)
(* get_option_expiration called on its own                                 *)
(* ---------------------------------------------------------------------- *)
ExpBase == ymd2ord(2023, 11, 1)

ExpDates == ExpBase..(ExpBase + ExpSpan - 1)

DaysTargets == {0, 15, 60, 90, 120, 135, 150, 180, 210, 330}

GetOptionExpiration ==
    /\ pc = "exp_call"
    /\ closest' = get_option_expiration(today, days_target)
    /\ pc' = "exp_return"
    /\ UNCHANGED <<days_target, clockVars, genVars, roundVars, histVars,
                   mainVars>>

InitExp ==
    /\ pc = "exp_call"
    /\ today \in ExpDates /\ ticks = 0
    /\ symbol = <<>> /\ price = 0
    /\ days_target \in DaysTargets /\ closest = NoDate
    /\ GenIdle /\ RoundIdle /\ HistIdle /\ MainIdle

NextExp == GetOptionExpiration

SpecExp == InitExp /\ [][NextExp]_vars

(* ---------------------------------------------------------------------- *)
(* update_historical_prices against a stored history                       *)
(* ---------------------------------------------------------------------- *)
HistSymbols == {ABC, XYZ}

HistPrices == {Cents(1000), Cents(2500)}

HistBase == ymd2ord(2024, 12, 30)

\* a stored history of n entries, one per day up to the day before HistBase
StoredHistory(n) ==
    [i \in 1..n |-> [date |-> strftime(HistBase - n + i - 1),
                     price |-> Cents(5000 + i)]]

StoredLengths == {1, HistoryCap - 1, HistoryCap}

InitialStores ==
    UNION {[dom -> {StoredHistory(n) : n \in StoredLengths}] :
              dom \in SUBSET HistSymbols}

UpdateHistoricalPrices ==
    /\ pc = "hist"
    /\ updates < MaxUpdates
    /\ \E sym \in HistSymbols, p \in HistPrices :
         /\ hist_data' = update_historical_prices(hist_data, sym, p, today)
         /\ appended' = [appended EXCEPT ![sym] =
                Append(@, [date |-> strftime(today), price |-> p])]
    /\ updates' = updates + 1
    /\ UNCHANGED <<pc, clockVars, genVars, roundVars, expVars, mainVars>>

InitHist ==
    /\ pc = "hist"
    /\ today = HistBase /\ ticks = 0
    /\ symbol = <<>> /\ price = 0
    /\ hist_data \in InitialStores
    /\ appended = [s \in HistSymbols |->
                     IF s \in DOMAIN hist_data THEN hist_data[s] ELSE <<>>]
    /\ updates = 0
    /\ GenIdle /\ RoundIdle /\ ExpIdle /\ MainIdle

NextHist == UpdateHistoricalPrices \/ Tick

SpecHist == InitHist /\ [][NextHist]_vars

(* ---------------------------------------------------------------------- *)
(* main: the loop over the symbols                                         *)
(* ---------------------------------------------------------------------- *)
MainSymbols == {ABC, XYZ}

MainPrices == {Cents(20), Cents(5000)}

SymbolLists ==
    UNION {[1..n -> MainSymbols] : n \in 0..MaxSymbols}

\* the date a read of the clock returns when the day changes after the
\* k-th read of the iteration (k = 6: it does not change)
ReadAt(i, k) == IF i <= k THEN today ELSE today + 1

ClockChoices == IF ticks < MaxTicks THEN 0..6 ELSE {6}

AdvanceClock(k) ==
    /\ today' = ReadAt(6, k)
    /\ ticks' = IF k < 6 THEN ticks + 1 ELSE ticks

\* lines 238-246
MainStart ==
    /\ pc = "main_start"
    /\ IF trading_day
       THEN /\ \E list \in SymbolLists : symbols' = list
            /\ idx' = 1
            /\ pc' = "main_loop"
       ELSE /\ pc' = "main_done"
            /\ UNCHANGED <<symbols, idx>>
    /\ UNCHANGED <<all_options, outcome, trading_day>>
    /\ UNCHANGED <<clockVars, genVars, roundVars, expVars, histVars>>

\* line 251 raises: the except clause prints and continues
MainFetchFails ==
    /\ pc = "main_loop" /\ idx <= Len(symbols)
    /\ outcome' = Append(outcome, "fetch")
    /\ idx' = idx + 1
    /\ UNCHANGED <<pc, symbols, all_options, trading_day>>
    /\ UNCHANGED <<clockVars, genVars, roundVars, expVars, histVars>>

\* line 255 raises before the file is written
MainUpdateFails ==
    /\ pc = "main_loop" /\ idx <= Len(symbols)
    /\ outcome' = Append(outcome, "update")
    /\ idx' = idx + 1
    /\ UNCHANGED <<pc, symbols, all_options, trading_day>>
    /\ UNCHANGED <<clockVars, genVars, roundVars, expVars, histVars>>

\* the records appended to all_options one by one, the failure after phase 1
MainGenerateFails_Partial ==
    /\ pc = "main_loop" /\ idx <= Len(symbols)
    /\ \E p \in MainPrices, k \in ClockChoices :
         /\ hist_data' = update_historical_prices(hist_data, symbols[idx], p,
                                                  ReadAt(1, k))
         /\ all_options' = all_options \o
              Phase1(symbols[idx], p,
                     get_option_expiration(ReadAt(2, k), 90),
                     get_option_expiration(ReadAt(3, k), 180))
         /\ AdvanceClock(k)
    /\ outcome' = Append(outcome, "generate")
    /\ idx' = idx + 1
    /\ UNCHANGED <<pc, symbols, trading_day>>
    /\ UNCHANGED <<appended, updates, genVars, roundVars, expVars>>

\* line 258 raises (an exception of the callee propagates): the history is
\* already written, nothing is aggregated
MainGenerateFails ==
    /\ pc = "main_loop" /\ idx <= Len(symbols)
    /\ \E p \in MainPrices, k \in ClockChoices :
         /\ hist_data' = update_historical_prices(hist_data, symbols[idx], p,
                                                  ReadAt(1, k))
         /\ AdvanceClock(k)
    /\ outcome' = Append(outcome, "generate")
    /\ idx' = idx + 1
    /\ UNCHANGED <<pc, symbols, all_options, trading_day>>
    /\ UNCHANGED <<appended, updates, genVars, roundVars, expVars>>

\* lines 251-259 without an exception
MainSymbolOk ==
    /\ pc = "main_loop" /\ idx <= Len(symbols)
    /\ \E p \in MainPrices, k \in ClockChoices :
         /\ hist_data' = update_historical_prices(hist_data, symbols[idx], p,
                                                  ReadAt(1, k))
         /\ all_options' = all_options \o
              generate_options_for_stock(symbols[idx], p,
                                         [i \in 1..5 |-> ReadAt(i + 1, k)])
         /\ AdvanceClock(k)
    /\ outcome' = Append(outcome, "ok")
    /\ idx' = idx + 1
    /\ UNCHANGED <<pc, symbols, trading_day>>
    /\ UNCHANGED <<appended, updates, genVars, roundVars, expVars>>

\* lines 265-281
MainFinish ==
    /\ pc = "main_loop" /\ idx > Len(symbols)
    /\ pc' = "main_done"
    /\ UNCHANGED <<clockVars, genVars, roundVars, expVars, histVars, mainVars>>

InitMain ==
    /\ pc = "main_start"
    /\ today = GenBase + 1 /\ ticks = 0
    /\ symbol = <<>> /\ price = 0
    /\ hist_data = <<>> /\ appended = <<>> /\ updates = 0
    /\ symbols = <<>> /\ idx = 0 /\ all_options = <<>> /\ outcome = <<>>
    /\ trading_day \in BOOLEAN
    /\ GenIdle /\ RoundIdle /\ ExpIdle

NextMain ==
    \/ MainStart \/ MainFetchFails \/ MainUpdateFails \/ MainGenerateFails
    \/ MainSymbolOk \/ MainFinish \/ Tick

SpecMain == InitMain /\ [][NextMain]_vars

(* ---------------------------------------------------------------------- *)
(* Properties                                                              *)
(* ---------------------------------------------------------------------- *)
\* The step-by-step generator and the whole-call operator build the same
\* list from the same reads of the clock.
GenMatchesCall ==
    pc = "gen_return" =>
        options = generate_options_for_stock(symbol, price, reads)

\* C1: the returned list has exactly 8 records, numbered 1..8 in list
\* order, each of Type "Put", carrying the input symbol and empty Bid, Ask,
\* Mid and Notes.
C1_EightPutRecords ==
    pc = "gen_return" =>
        /\ Len(options) = 8
        /\ \A i \in 1..8 :
             /\ options[i].Option_Num = i
             /\ options[i].Type = "Put"
             /\ options[i].Symbol = symbol
             /\ options[i].Bid = "" /\ options[i].Ask = ""
             /\ options[i].Mid = "" /\ options[i].Notes = ""

C1_Witness ==
    /\ pc = "gen_return" /\ symbol = XYZ /\ price = Cents(10000)
    /\ Len(options) = 8 /\ options[8].Option_Num = 8

\* C2: the resolver returns the third Friday, among those of the 12
\* consecutive calendar months starting at the as-of date's month, that is
\* nearest to as-of date + target days, the earlier one on a tie.
ConsecutiveMonths(ordinal) ==
    LET ymd == ord2ymd(ordinal)
    IN  [k \in 1..12 |->
            LET m0 == (ymd[2] - 1) + (k - 1)
            IN  <<ymd[1] + (m0 \div 12), (m0 % 12) + 1>>]

IsThirdFriday(ordinal) ==
    LET ymd == ord2ymd(ordinal)
    IN  weekday(ordinal) = 4 /\ ymd[3] >= 15 /\ ymd[3] <= 21

C2_NearestOfTwelveMonths ==
    pc = "exp_return" =>
        LET months == ConsecutiveMonths(today)
            cands == {d \in today - 31 .. today + 400 :
                        /\ IsThirdFriday(d)
                        /\ \E k \in 1..12 :
                             /\ ord2ymd(d)[1] = months[k][1]
                             /\ ord2ymd(d)[2] = months[k][2]}
            target == today + days_target
            best == CHOOSE d \in cands :
                        \A e \in cands :
                            \/ Abs(d - target) < Abs(e - target)
                            \/ Abs(d - target) = Abs(e - target) /\ d <= e
        IN  /\ Cardinality(cands) = 12
            /\ closest = ord2ymd(best)

\* C3: record i carries the horizon and the strike of heuristic i.
C3_HeuristicOfEachRecord ==
    pc = "gen_return" =>
        LET e90 == get_option_expiration(reads[1], 90)
            e180 == get_option_expiration(reads[2], 180)
            e135 == get_option_expiration(reads[3], 135)
            strike(pct) == round_strike(price, (price * pct) \div 100)
        IN  /\ options[1].Expiration = e90 /\ options[1].Strike = strike(100)
            /\ options[2].Expiration = e90 /\ options[2].Strike = strike(85)
            /\ options[3].Expiration = e90 /\ options[3].Strike = strike(70)
            /\ options[4].Expiration = e180 /\ options[4].Strike = strike(85)
            /\ options[5].Expiration = e180 /\ options[5].Strike = strike(100)
            /\ options[6].Expiration = e135 /\ options[6].Strike = strike(80)
            /\ options[7].Expiration = options[1].Expiration
            /\ options[7].Strike = strike(60)

C3_Witness ==
    /\ pc = "gen_return" /\ price = Cents(10000)
    /\ options[1].Expiration # options[4].Expiration
    /\ options[4].Expiration # options[6].Expiration
    /\ options[2].Strike = Cents(8500) /\ options[7].Strike = Cents(6000)

\* C4: the increment comes from the reference price alone and the result
\* is the multiple of it nearest to the raw target, the even quotient on a
\* tie; round_strike(10, 10) = 10, round_strike(100, 101.3) = 101 and
\* round_strike(300, 303) = 305.
C4_NearestMultipleOfTier ==
    pc = "round_return" =>
        LET inc == IF price < 250000 THEN 5000
                   ELSE IF price < 2000000 THEN 10000 ELSE 50000
            dist == Abs(rounded - strike_value)
        IN  /\ rounded % inc = 0
            /\ 2 * dist <= inc
            /\ (2 * dist = inc => (rounded \div inc) % 2 = 0)
            /\ (price = 100000 /\ strike_value = 100000 => rounded = 100000)
            /\ (price = 1000000 /\ strike_value = 1013000
                    => rounded = 1010000)
            /\ (price = 3000000 /\ strike_value = 3030000
                    => rounded = 3050000)

C4_Witness ==
    /\ pc = "round_return"
    /\ price = Cents(30000) /\ strike_value = Cents(30250)
    /\ rounded = Cents(30000)

\* C5: the wildcard's two menu indices are the same number, the seed
\* (day of year * sum of character codes) mod 6, and record 8 carries the
\* expiration resolved for the chosen days and the strike of the chosen
\* out-of-the-money fraction.
C5_WildcardPair ==
    pc \in {"gen_219", "gen_return"} =>
        LET sd == (tm_yday(reads[4]) * SumCodes(symbol)) % 6
            otm == <<95, 90, 82, 75, 65, 55>>
            days == <<60, 90, 120, 150, 180, 210>>
        IN  /\ random_otm = otm[sd + 1]
            /\ random_days = days[sd + 1]
            /\ pc = "gen_return" =>
                 /\ options[8].Expiration =
                        get_option_expiration(reads[5], days[sd + 1])
                 /\ options[8].Strike =
                        round_strike(price, (price * otm[sd + 1]) \div 100)

C5_Witness ==
    /\ pc = "gen_return" /\ price = Cents(10000)
    /\ random_otm = 55 /\ random_days = 210
    /\ options[8].Strike = Cents(5500)

\* C6: a reference price that is not positive is rejected before any
\* candidate is produced, and nothing is returned.
C6_RejectsNonPositivePrice ==
    price <= 0 => options = <<>> /\ pc # "gen_return"

\* C7: for a positive reference price every strike is positive and a
\* multiple of the increment of the price's tier.
C7_StrikesPositive ==
    pc = "gen_return" /\ price > 0 =>
        \A i \in 1..Len(options) :
            /\ options[i].Strike > 0
            /\ options[i].Strike % Increment(price) = 0

\* C8: whatever the clock does during the invocation (of a positive price),
\* the returned list is the one a generation with a single as-of date, one
\* of the dates the clock showed, returns.
C8_SingleAsOfDate ==
    pc = "gen_return" /\ price > 0 =>
        \E d \in {reads[i] : i \in 1..Len(reads)} :
            options = generate_options_for_stock(symbol, price,
                                                 <<d, d, d, d, d>>)

\* C9: on a trading day main processes every symbol in order whatever
\* fails, and all_options holds the 8 records of each symbol that
\* succeeded, in list order, and nothing of a symbol that failed.
OkBefore(i) == Cardinality({k \in 1..(i - 1) : outcome[k] = "ok"})

C9_SkipAndContinue ==
    pc = "main_done" /\ trading_day =>
        /\ Len(outcome) = Len(symbols)
        /\ Len(all_options) = 8 * OkBefore(Len(symbols) + 1)
        /\ \A i \in 1..Len(symbols) :
             outcome[i] = "ok" =>
                \A n \in 1..8 :
                    /\ all_options[8 * OkBefore(i) + n].Symbol = symbols[i]
                    /\ all_options[8 * OkBefore(i) + n].Option_Num = n

C9_Witness ==
    /\ pc = "main_done" /\ trading_day
    /\ Len(symbols) = 2
    /\ outcome[1] = "generate" /\ outcome[2] = "ok"
    /\ Len(all_options) = 8

\* C10: every stored history has at most 252 entries, they are the most
\* recently appended ones in append order, and a symbol never stored has
\* none.
C10_RollingHistory ==
    \A s \in HistSymbols :
        IF s \in DOMAIN hist_data
        THEN LET h == hist_data[s]
                 log == appended[s]
             IN  /\ Len(h) <= 252
                 /\ Len(h) = IF Len(log) <= 252 THEN Len(log) ELSE 252
                 /\ \A i \in 1..Len(h) : h[i] = log[Len(log) - Len(h) + i]
        ELSE appended[s] = <<>>

C10_Witness ==
    /\ pc = "hist"
    /\ ABC \in DOMAIN hist_data /\ XYZ \in DOMAIN hist_data
    /\ Len(appended[ABC]) > HistoryCap
    /\ Len(hist_data[ABC]) = HistoryCap
    /\ Len(hist_data[XYZ]) = 1
    /\ updates >= 2

====
